---- MODULE Spec2Model ----
(***************************************************************************)
(* Model of the Oasis repository: helpers.split_dates_by_limit (the date   *)
(* range chunking) and main.Oasis.get (the fetch loop that consumes it).   *)
(*                                                                         *)
(* Timestamps are pandas Timestamps: an integer count of ticks since       *)
(* 1970-01-01.  pandas counts nanoseconds; a day of 86400*10^9 ns does not *)
(* fit TLC's integers, so a day is TicksPerDay ticks here.  Every duration *)
(* in the code is a whole number of days except pd.Timedelta(1), which is  *)
(* one tick (1 ns): only the order of "k days minus one tick" against      *)
(* whole days matters, and that is the same for any day of >= 2 ticks.     *)
(***************************************************************************)
EXTENDS Integers, Sequences, FiniteSets, TLC

VARIABLES
    \* split_dates_by_limit, called on its own
    start_date, end_date, limit, date_format, pc, result,
    \* Oasis.get
    self_start_date, self_end_date, gpc, dates, idx, df, w,
    unzipped, dir_exists, requests, raised

splitVars == <<start_date, end_date, limit, date_format, pc, result>>
getVars == <<self_start_date, self_end_date, gpc, dates, idx, df, w,
             unzipped, dir_exists, requests, raised>>
vars == <<splitVars, getVars>>

----------------------------------------------------------------------------
(* Bounds of the model.                                                    *)

TicksPerDay == 4
MaxSpan == 10
MaxLimit == 4
MaxNegLimit == 2

----------------------------------------------------------------------------
(* Calendar: what pd.to_datetime(format=...) and Timestamp.strftime do for *)
(* the two day-granular formats the repository uses.  A date string is the *)
(* tuple of its numeric fields in the order the format prints them.        *)

FormatMDY == "%m/%d/%y"
FormatYMD == "%Y%m%d"

\* proleptic Gregorian day number of y-m-d, 1970-01-01 = 0
days_from_civil(y, m, d) ==
    LET yy  == IF m <= 2 THEN y - 1 ELSE y
        era == yy \div 400
        yoe == yy - era * 400
        mp  == IF m > 2 THEN m - 3 ELSE m + 9
        doy == (153 * mp + 2) \div 5 + d - 1
        doe == yoe * 365 + yoe \div 4 - yoe \div 100 + doy
    IN  era * 146097 + doe - 719468

\* the inverse: <<y, m, d>> of a day number
civil_from_days(z) ==
    LET zz  == z + 719468
        era == zz \div 146097
        doe == zz - era * 146097
        yoe == (doe - doe \div 1460 + doe \div 36524 - doe \div 146096) \div 365
        doy == doe - (365 * yoe + yoe \div 4 - yoe \div 100)
        mp  == (5 * doy + 2) \div 153
        d   == doy - (153 * mp + 2) \div 5 + 1
        m   == IF mp < 10 THEN mp + 3 ELSE mp - 9
        y   == yoe + era * 400
    IN  <<IF m <= 2 THEN y + 1 ELSE y, m, d>>

\* %y parses 00..68 as 20xx and 69..99 as 19xx
two_digit_year(yy) == IF yy < 69 THEN 2000 + yy ELSE 1900 + yy

\* pd.to_datetime(s, format=fmt): midnight of the day the string names
to_datetime(s, fmt) ==
    IF fmt = FormatMDY
    THEN days_from_civil(two_digit_year(s[3]), s[1], s[2]) * TicksPerDay
    ELSE days_from_civil(s[1], s[2], s[3]) * TicksPerDay

\* Timestamp.strftime(fmt): the fields of the day the instant lies in; the
\* time of day is not printed by either format
strftime(ts, fmt) ==
    LET c == civil_from_days(ts \div TicksPerDay)
    IN  IF fmt = FormatMDY THEN <<c[2], c[3], c[1] % 100>>
        ELSE <<c[1], c[2], c[3]>>

\* pd.Timedelta(days=n)
Timedelta_days(n) == n * TicksPerDay

\* pd.Timedelta(1): one unit of the finest resolution
Timedelta_1 == 1

----------------------------------------------------------------------------
(* helpers.split_dates_by_limit                                            *)

NoneResult == [kind |-> "None", start_dates |-> <<>>, end_dates |-> <<>>,
               exc |-> ""]
Raise(e) == [kind |-> "raise", start_dates |-> <<>>, end_dates |-> <<>>,
             exc |-> e]
Dict(sd, ed) == [kind |-> "dict", start_dates |-> sd, end_dates |-> ed,
                 exc |-> ""]

\* line 140: if limit > dt_delta: return None
NoSplitNeeded_strict(lim, dt_delta) == lim >= dt_delta
NoSplitNeeded(lim, dt_delta) == lim > dt_delta

\* line 145: the first chunk's end
FirstEndDate_noOffset(dt_start_date, lim) == dt_start_date + lim
FirstEndDate(dt_start_date, lim) == dt_start_date + lim - Timedelta_1

\* line 153: math.ceil(dt_delta / limit), limit # 0 (true division of two
\* Timedeltas gives a float; the quotients here are exact or far from an
\* integer, so the ceiling is the integer ceiling)
Splits_floor(dt_delta, lim) ==
    IF lim > 0 THEN dt_delta \div lim
    ELSE -(dt_delta \div (-lim))
Splits(dt_delta, lim) ==
    IF lim > 0 THEN (dt_delta + lim - 1) \div lim
    ELSE -(dt_delta \div (-lim))

\* line 164: keep stepping the end by limit?
KeepAppending(new_end_date, dt_end_date, lim) ==
    new_end_date < dt_end_date /\ (dt_end_date - new_end_date > lim)

\* line 169: the last end date
LastEndDate_step(new_end_date, dt_end_date, lim) == new_end_date + lim
LastEndDate(new_end_date, dt_end_date, lim) ==
    new_end_date + (dt_end_date - new_end_date)

\* line 160: new_start_date += limit
NextStartDate_fromEnd(new_start_date, lim) == new_start_date + lim - Timedelta_1
NextStartDate(new_start_date, lim) == new_start_date + lim

\* lines 157-169: the while loop, on the local variables
RECURSIVE SplitLoop(_, _, _, _)
SplitLoop(st, splits, lim, dt_end_date) ==
    IF ~(Len(st.start_dates) < splits) THEN st
    ELSE LET sd == Append(st.start_dates, st.new_start_date)
             ns == NextStartDate(st.new_start_date, lim)
         IN  IF KeepAppending(st.new_end_date, dt_end_date, lim)
             THEN SplitLoop([start_dates |-> sd,
                             end_dates |-> Append(st.end_dates, st.new_end_date + lim),
                             new_start_date |-> ns,
                             new_end_date |-> st.new_end_date + lim],
                            splits, lim, dt_end_date)
             ELSE SplitLoop([start_dates |-> sd,
                             end_dates |-> Append(st.end_dates,
                                 LastEndDate(st.new_end_date, dt_end_date, lim)),
                             new_start_date |-> ns,
                             new_end_date |-> st.new_end_date],
                            splits, lim, dt_end_date)

\* lines 174-175: the list comprehensions that format the dates
FormatAll(ts, fmt) == [i \in 1..Len(ts) |-> strftime(ts[i], fmt)]

\* lines 131-178
split_dates_by_limit(sdate, edate, lim_days, fmt) ==
    LET lim           == Timedelta_days(lim_days)
        dt_start_date == to_datetime(sdate, fmt)
        dt_end_date   == to_datetime(edate, fmt)
        dt_delta      == dt_end_date - dt_start_date
    IN  IF NoSplitNeeded(lim, dt_delta) THEN NoneResult
        ELSE IF lim = 0 THEN Raise("ZeroDivisionError")  \* line 153, outside the try
        ELSE LET st == SplitLoop([start_dates |-> <<dt_start_date>>,
                                  end_dates |-> <<FirstEndDate(dt_start_date, lim)>>,
                                  new_start_date |-> dt_start_date + lim,
                                  new_end_date |-> FirstEndDate(dt_start_date, lim)],
                                 Splits(dt_delta, lim), lim, dt_end_date)
             IN  Dict(FormatAll(st.start_dates, fmt), FormatAll(st.end_dates, fmt))

----------------------------------------------------------------------------
(* Inputs of the stand-alone calls.                                        *)

\* first days of the ranges: the docstring's start, a year end, a leap February
StartDays == {days_from_civil(2017, 1, 1), days_from_civil(2017, 12, 27),
              days_from_civil(2020, 2, 24)}
Formats == {FormatMDY, FormatYMD}
Limits == (0 - MaxNegLimit) .. MaxLimit

\* the docstring's example call (lines 123-128)
DocStart == <<1, 1, 17>>
DocEnd == <<12, 31, 18>>
DocLimit == 90

NotCalled == [kind |-> "pending", start_dates |-> <<>>, end_dates |-> <<>>,
              exc |-> ""]

GetIdle ==
    /\ self_start_date = <<>> /\ self_end_date = <<>>
    /\ gpc = "idle" /\ dates = NotCalled /\ idx = 0 /\ df = <<>>
    /\ w = "none" /\ unzipped = <<>> /\ dir_exists = FALSE
    /\ requests = <<>> /\ raised = ""

Init ==
    /\ \/ \E s \in StartDays, n \in 0..MaxSpan, f \in Formats :
            /\ start_date = strftime(s * TicksPerDay, f)
            /\ end_date = strftime((s + n) * TicksPerDay, f)
            /\ date_format = f
            /\ limit \in Limits
       \/ /\ start_date = DocStart /\ end_date = DocEnd
          /\ limit = DocLimit /\ date_format = FormatMDY
    /\ pc = "call"
    /\ result = NotCalled
    /\ GetIdle

\* one call of split_dates_by_limit
Call ==
    /\ pc = "call"
    /\ result' = split_dates_by_limit(start_date, end_date, limit, date_format)
    /\ pc' = "done"
    /\ UNCHANGED <<start_date, end_date, limit, date_format>>
    /\ UNCHANGED getVars

Next == Call

Spec == Init /\ [][Next]_vars

----------------------------------------------------------------------------
(* main.Oasis.get and the helpers it calls.                                *)
(*                                                                         *)
(* A DataFrame is the sequence of its rows; a row is <<request, j>>: the   *)
(* j-th row of the CSV that answered the request-th network call (request  *)
(* 0: a CSV that was in the directory before get was called).  The         *)
(* directory 'unzipped' is the sequence of its files, oldest ctime first.  *)

MaxGetSpan == 61
MaxRows == 2

\* main.py line 138: limit=30
OasisLimit == 30
\* main.py line 137
timestamp_adder == "T08:00-0000"

GetStartDays == {days_from_civil(2018, 1, 1), days_from_civil(2019, 12, 15)}

\* what one session.get can come back with: no response at all, bytes that
\* are no zip archive, an archive without a CSV (the API's error report), an
\* archive whose CSV cannot be parsed, an archive with a CSV of n rows
Responses ==
    {[kind |-> k, rows |-> 0] :
        k \in {"network_error", "not_zip", "zip_no_csv", "zip_bad_csv"}}
    \cup {[kind |-> "zip_csv", rows |-> n] : n \in 0..MaxRows}

NoWeb == [kind |-> "none", rows |-> 0]

CsvRows(req, n) == [j \in 1..n |-> <<req, j>>]

\* a CSV left in 'unzipped' by an earlier run
StaleFile == [name |-> 0, ext |-> "csv", readable |-> TRUE, rows |-> CsvRows(0, 1)]

\* lines 163-165 / 143-144: the request parameters
Payload(s_date, e_date) ==
    [startdatetime |-> <<s_date, timestamp_adder>>,
     enddatetime |-> <<e_date, timestamp_adder>>]

\* zipfile extractall: a member replaces a file of the same name and is the
\* newest file of the directory
Extract(files, f) ==
    Append(SelectSeq(files, LAMBDA g : ~(g.name = f.name /\ g.ext = f.ext)), f)

\* helpers.Web.unzip, lines 273-289, sub_folder_name = None: the files of
\* 'unzipped' afterwards.  self.r missing (AttributeError) and bytes that are
\* no archive (BadZipFile) are caught and printed.
unzip(files, resp, req) ==
    CASE resp.kind = "zip_no_csv" ->
            Extract(files, [name |-> 0, ext |-> "xml", readable |-> FALSE, rows |-> <<>>])
      [] resp.kind = "zip_bad_csv" ->
            Extract(files, [name |-> req, ext |-> "csv", readable |-> FALSE, rows |-> <<>>])
      [] resp.kind = "zip_csv" ->
            Extract(files, [name |-> req, ext |-> "csv", readable |-> TRUE,
                            rows |-> CsvRows(req, resp.rows)])
      [] OTHER -> files

\* glob.glob('%s/*.csv'), line 217
CsvFiles(files) == SelectSeq(files, LAMBDA g : g.ext = "csv")

\* helpers.get_latest_csv(filepath, delete=True), lines 216-230.  With no CSV
\* max() raises ValueError and with an unparsable one read_csv raises a
\* ValueError subclass; both are caught, the comparison of line 228 is never
\* true, and line 230 reads the unassigned df: UnboundLocalError leaves the
\* function.  Otherwise the newest CSV is read and removed.
get_latest_csv(files) ==
    LET csvs == CsvFiles(files)
    IN  IF csvs = <<>> \/ ~csvs[Len(csvs)].readable
        THEN [exc |-> "UnboundLocalError", rows |-> <<>>, files |-> files]
        ELSE LET latest_file == csvs[Len(csvs)]
             IN  [exc |-> "", rows |-> latest_file.rows,
                  files |-> SelectSeq(files, LAMBDA g : g # latest_file)]

\* lines 173-180: the first table replaces an empty df, later ones are appended
Accumulate_prepend(old, temp_df) == IF Len(old) = 0 THEN temp_df ELSE temp_df \o old
Accumulate(old, temp_df) == IF Len(old) = 0 THEN temp_df ELSE old \o temp_df

\* lines 181-183: the except clause of the loop body prints and the for loop
\* goes on with the next pair
NextAfterFailure_break(i, n) == n + 1
NextAfterFailure(i, n) == i + 1

\* line 163: zip(start_dates, end_dates) yields as many pairs as the shorter list
NPairs(d) == IF Len(d.start_dates) <= Len(d.end_dates)
             THEN Len(d.start_dates) ELSE Len(d.end_dates)

SplitIdle ==
    /\ start_date = <<>> /\ end_date = <<>> /\ limit = 0
    /\ date_format = "" /\ pc = "idle" /\ result = NotCalled

\* Oasis(start_date, end_date), lines 116-118, about to call get()
GetInit ==
    /\ SplitIdle
    /\ \E s \in GetStartDays, n \in 0..MaxGetSpan :
          /\ self_start_date = strftime(s * TicksPerDay, FormatYMD)
          /\ self_end_date = strftime((s + n) * TicksPerDay, FormatYMD)
    /\ gpc = "begin"
    /\ dates = NotCalled /\ idx = 0 /\ df = <<>> /\ w = NoWeb
    /\ unzipped \in {<<>>, <<StaleFile>>}
    /\ dir_exists = (unzipped # <<>>)
    /\ requests = <<>> /\ raised = ""

\* lines 132-142, 158-162: split the range and take the single or chunked path
GetBegin ==
    /\ gpc = "begin"
    /\ dates' = split_dates_by_limit(self_start_date, self_end_date,
                                     OasisLimit, FormatYMD)
    /\ df' = <<>>
    /\ idx' = IF dates'.kind = "dict" THEN 1 ELSE 0
    /\ gpc' = CASE dates'.kind = "None" -> "single_request"
                [] dates'.kind = "dict" /\ NPairs(dates') >= 1 -> "chunk_request"
                [] dates'.kind = "dict" /\ NPairs(dates') = 0 -> "cleanup"
                [] OTHER -> "raised"
    /\ raised' = dates'.exc
    /\ UNCHANGED <<self_start_date, self_end_date, w, unzipped, dir_exists, requests>>
    /\ UNCHANGED splitVars

\* lines 143-147: the one request for the whole range
SingleRequest ==
    /\ gpc = "single_request"
    /\ \E resp \in Responses :
          /\ w' = resp
          /\ requests' = Append(requests,
                [payload |-> Payload(self_start_date, self_end_date),
                 response |-> resp, done |-> FALSE])
    /\ gpc' = "single_unzip"
    /\ UNCHANGED <<self_start_date, self_end_date, dates, idx, df, unzipped,
                   dir_exists, raised>>
    /\ UNCHANGED splitVars

\* lines 149-155: w.unzip()
SingleUnzip ==
    /\ gpc = "single_unzip"
    /\ dir_exists' = TRUE
    /\ unzipped' = unzip(unzipped, w, Len(requests))
    /\ gpc' = "single_read"
    /\ UNCHANGED <<self_start_date, self_end_date, dates, idx, df, w, requests, raised>>
    /\ UNCHANGED splitVars

\* line 157: df = helpers.get_latest_csv('unzipped', delete=True), outside any try
SingleRead ==
    /\ gpc = "single_read"
    /\ LET got == get_latest_csv(unzipped)
       IN  /\ unzipped' = got.files
           /\ requests' = [requests EXCEPT ![Len(requests)].done = TRUE]
           /\ IF got.exc = ""
              THEN /\ df' = got.rows /\ gpc' = "cleanup" /\ raised' = ""
              ELSE /\ df' = df /\ gpc' = "raised" /\ raised' = got.exc
    /\ UNCHANGED <<self_start_date, self_end_date, dates, idx, w, dir_exists>>
    /\ UNCHANGED splitVars

\* lines 163-169: the request of the idx-th pair
ChunkRequest ==
    /\ gpc = "chunk_request"
    /\ idx <= NPairs(dates)
    /\ \E resp \in Responses :
          /\ w' = resp
          /\ requests' = Append(requests,
                [payload |-> Payload(dates.start_dates[idx], dates.end_dates[idx]),
                 response |-> resp, done |-> FALSE])
    /\ gpc' = "chunk_unzip"
    /\ UNCHANGED <<self_start_date, self_end_date, dates, idx, df, unzipped,
                   dir_exists, raised>>
    /\ UNCHANGED splitVars

\* line 170: w.unzip()
ChunkUnzip ==
    /\ gpc = "chunk_unzip"
    /\ dir_exists' = TRUE
    /\ unzipped' = unzip(unzipped, w, Len(requests))
    /\ gpc' = "chunk_read"
    /\ UNCHANGED <<self_start_date, self_end_date, dates, idx, df, w, requests, raised>>
    /\ UNCHANGED splitVars

\* lines 173-183: read the newest CSV into df; an exception is printed and the
\* loop goes on
ChunkRead ==
    /\ gpc = "chunk_read"
    /\ LET got == get_latest_csv(unzipped)
           nxt == IF got.exc = "" THEN idx + 1
                  ELSE NextAfterFailure(idx, NPairs(dates))
       IN  /\ unzipped' = got.files
           /\ requests' = [requests EXCEPT ![Len(requests)].done = TRUE]
           /\ df' = IF got.exc = "" THEN Accumulate(df, got.rows) ELSE df
           /\ idx' = nxt
           /\ gpc' = IF nxt <= NPairs(dates) THEN "chunk_request" ELSE "cleanup"
    /\ UNCHANGED <<self_start_date, self_end_date, dates, w, dir_exists, raised>>
    /\ UNCHANGED splitVars

\* lines 184-188 with helpers.rmdir, lines 208-213: os.removedirs removes the
\* directory only when it is empty; its failure is printed.  Then return df.
GetReturn ==
    /\ gpc = "cleanup"
    /\ dir_exists' = (dir_exists /\ unzipped # <<>>)
    /\ gpc' = "returned"
    /\ UNCHANGED <<self_start_date, self_end_date, dates, idx, df, w, unzipped,
                   requests, raised>>
    /\ UNCHANGED splitVars

GetNext ==
    \/ GetBegin
    \/ SingleRequest
    \/ SingleUnzip
    \/ SingleRead
    \/ ChunkRequest
    \/ ChunkUnzip
    \/ ChunkRead
    \/ GetReturn

GetSpec == GetInit /\ [][GetNext]_vars

----------------------------------------------------------------------------
(* Properties of split_dates_by_limit, read off the state after the call.  *)

Returned == pc = "done"
\* day numbers of the inputs and of the returned strings
DayOf(s) == to_datetime(s, date_format) \div TicksPerDay
StartDay == DayOf(start_date)
EndDay == DayOf(end_date)
SpanDays == EndDay - StartDay
DateOfDay(n) == strftime(n * TicksPerDay, date_format)
NChunks == Len(result.start_dates)
\* the case the splitting claims are about: a positive limit not above the span
Splitting == Returned /\ limit > 0 /\ SpanDays >= limit

\* C1: with limit > 0 and end - start >= limit the result covers the interval:
\* the first start is start_date and the last end is end_date, exact multiples
\* of limit included.
C1_CoversInterval ==
    Splitting =>
        /\ result.kind = "dict"
        /\ NChunks >= 1 /\ Len(result.end_dates) >= 1
        /\ result.start_dates[1] = start_date
        /\ result.end_dates[Len(result.end_dates)] = end_date

\* C2: with limit > 0 the call returns None exactly when end - start < limit;
\* at end - start = limit it returns a dictionary.
C2_NoneIffShort ==
    (Returned /\ limit > 0) =>
        /\ (result.kind = "None") <=> (SpanDays < limit)
        /\ (SpanDays = limit) => (result.kind = "dict")

C2_Witness ==
    Returned /\ limit > 0 /\ SpanDays = limit /\ result.kind = "dict"

\* C3: the chunks are ordered and contiguous: each next start is the day after
\* the previous end, and the starts strictly increase.
C3_Contiguous ==
    Splitting =>
        /\ result.kind = "dict"
        /\ \A i \in 1..(NChunks - 1) :
              /\ DayOf(result.start_dates[i + 1]) = DayOf(result.end_dates[i]) + 1
              /\ DayOf(result.start_dates[i]) < DayOf(result.start_dates[i + 1])

C3_Witness ==
    Splitting /\ result.kind = "dict" /\ NChunks >= 3 /\ SpanDays % limit # 0

\* C4: every chunk is non-empty, spans at most limit days counted inclusively,
\* every chunk but the last spans exactly limit days, and no chunk repeats.
C4_ChunkLengths ==
    Splitting =>
        /\ result.kind = "dict"
        /\ Len(result.end_dates) = NChunks
        /\ \A i \in 1..NChunks :
              LET s == DayOf(result.start_dates[i])
                  e == DayOf(result.end_dates[i])
              IN  /\ s <= e
                  /\ e - s + 1 <= limit
                  /\ (i < NChunks) => (e - s + 1 = limit)
        /\ \A i, j \in 1..NChunks :
              (i # j) => <<result.start_dates[i], result.end_dates[i]>>
                         # <<result.start_dates[j], result.end_dates[j]>>

C4_Witness ==
    /\ Splitting /\ result.kind = "dict" /\ NChunks >= 2
    /\ DayOf(result.end_dates[NChunks]) - DayOf(result.start_dates[NChunks]) + 1 < limit

\* C5: the number of chunks is ceil((end - start) / limit) and both lists have
\* that many elements.
CeilDays == IF SpanDays % limit = 0 THEN SpanDays \div limit
            ELSE SpanDays \div limit + 1
C5_ChunkCount ==
    Splitting =>
        /\ result.kind = "dict"
        /\ NChunks = CeilDays
        /\ Len(result.end_dates) = CeilDays

C5_Witness ==
    Splitting /\ result.kind = "dict" /\ SpanDays % limit # 0 /\ NChunks = 3

\* C6: with limit <= 0 the call fails: it returns neither None nor a dictionary.
C6_InvalidLimit ==
    (Returned /\ limit <= 0) => result.kind = "raise"

\* C10: with end - start = k*limit + r, k >= 1, 0 < r < limit, there are k+1
\* chunks: chunk i < k is [start + i*limit, start + (i+1)*limit - 1] and chunk k
\* is [start + k*limit, end], each printed in the input format.
C10_ChunkValues ==
    (Splitting /\ SpanDays % limit # 0) =>
        LET k == SpanDays \div limit
        IN  /\ result.kind = "dict"
            /\ NChunks = k + 1 /\ Len(result.end_dates) = k + 1
            /\ \A i \in 0..(k - 1) :
                  /\ result.start_dates[i + 1] = DateOfDay(StartDay + i * limit)
                  /\ result.end_dates[i + 1] = DateOfDay(StartDay + (i + 1) * limit - 1)
            /\ result.start_dates[k + 1] = DateOfDay(StartDay + k * limit)
            /\ result.end_dates[k + 1] = end_date

\* the docstring's call: 729 days = 8*90 + 9, nine chunks ending 12/31/18
C10_Witness ==
    /\ Returned /\ start_date = DocStart /\ end_date = DocEnd /\ limit = DocLimit
    /\ result.kind = "dict" /\ NChunks = 9
    /\ result.start_dates[9] = <<12, 22, 18>>
    /\ result.end_dates[9] = <<12, 31, 18>>

----------------------------------------------------------------------------
(* Properties of Oasis.get, under GetSpec.                                 *)

ChunkedPath == dates.kind = "dict"
Succeeded(i) == requests[i].response.kind = "zip_csv"
RowsOf(i) == {<<i, j>> : j \in 1..requests[i].response.rows}
DfRows == {df[p] : p \in 1..Len(df)}
ChunkPayload(i) == Payload(dates.start_dates[i], dates.end_dates[i])

C8_NeverRaises == gpc # "raised"

BoundDay(b) == to_datetime(b[1], FormatYMD) \div TicksPerDay
WindowStart(i) == BoundDay(requests[i].payload.startdatetime)
WindowEnd(i) == BoundDay(requests[i].payload.enddatetime)

\* C11: on the chunked path the request windows [s_i T08:00, e_i T08:00] leave
\* no instant of [start_date T08:00, end_date T08:00] unrequested between one
\* window and the next: the first window begins at start_date and each later
\* window begins no later than the one before it ends.  (That the last window
\* ends at end_date is C1's statement about the last end date.)
C11_WindowsCover ==
    ChunkedPath =>
        /\ (Len(requests) >= 1) =>
              WindowStart(1) = BoundDay(<<self_start_date, timestamp_adder>>)
        /\ \A i \in 1..(Len(requests) - 1) : WindowStart(i + 1) <= WindowEnd(i)

\* C12: on the chunked path every row of the accumulated table was read from
\* the CSV of the archive that answered one of this call's own requests, so a
\* chunk whose request or unzip failed contributes no rows, and no CSV is read
\* into the table twice.
C12_OwnCsvOnly ==
    ChunkedPath =>
        /\ \A p \in 1..Len(df) :
              /\ df[p][1] \in 1..Len(requests)
              /\ Succeeded(df[p][1])
        /\ \A p, q \in 1..Len(df) : (p # q) => (df[p] # df[q])

====
